---- MODULE Spec2Model ----
(***************************************************************************)
(* Model of the Dota live-match hydration path of the game-stats service   *)
(* (packages/game-stats-service/src/index.ts) and of the retry primitive   *)
(* it uses (packages/game-stats-service/src/lib/http.ts).                  *)
(*                                                                         *)
(* One handler invocation of GET /live/dota/featured is a request slot r.  *)
(* Every upstream fetch attempt is one action (a macrotask of the event    *)
(* loop); the code that runs between two awaits is part of the action that *)
(* resumes it.                                                             *)
(***************************************************************************)
EXTENDS Integers, Sequences, FiniteSets, TLC

VARIABLES steamApiKey, slots, transient, feeds, clock, ticks, leagueCache, teamCache, req
\* the upstream: whether its calls can fail, and whether a team can be
\* renamed between two lookups
VARIABLES faults, renames
\* the api-gateway: its last exchange
VARIABLES gw
\* the auth-service: the profiles it created and the tokens it issued
VARIABLES profiles, tokens
\* the metadata-service: its games list and its POST /games/cache handlers
VARIABLES metadataGames, cacheReqs
\* the live-service: its matches, the SSE streams it was asked for, the
\* listeners of its event bus, the watchers gauge and the ticks so far
VARIABLES liveMatches, streams, listeners, watchers, emits

\* ---------------------------------------------------------------- bounds
MaxGames == 2
MaxTicks == 2
\* profiles the auth-service creates
MaxProfiles == 3
\* length of the metadata-service's games list
MaxListed == 8
\* SSE streams opened and timer ticks of the live-service
MaxStreams == 3
MaxEmits == 2

\* ------------------------------------------------------------- constants
\* 5 * 60 * 1000 (index.ts:469, index.ts:493)
FreshnessMs == 5 * 60 * 1000
FeedRetries == 2
LeagueRetries == 1
TeamRetries == 1
BackoffMs == 300

\* a numeric field that is absent from the upstream JSON (undefined, NaN
\* under Number())
Missing == 0 - 1
\* an absent or falsy string; every other string is a pair <<kind, n>>
Undefined == <<>>
Truthy(v) == v # Undefined
\* a || b
Or(a, b) == IF Truthy(a) THEN a ELSE b

Reqs == {"r1", "r2"}

\* ------------------------------------------------------------ JS helpers
\* Number(v) is finite: an absent field gives NaN
IsFinite(v) == v # Missing

RECURSIVE Pow2(_)
Pow2(n) == IF n = 0 THEN 1 ELSE 2 * Pow2(n - 1)

\* Map<number, V> as a function on its key set
EmptyMap == [k \in {} |-> 0]
MapHas(m, k) == k \in DOMAIN m
MapSet(m, k, v) == [x \in (DOMAIN m) \cup {k} |-> IF x = k THEN v ELSE m[x]]

\* Array.from(xs): every occurrence
DedupeKeepsAll(xs) == xs
\* Array.from(new Set(xs)): first occurrences, in order
RECURSIVE Dedupe(_)
Dedupe(xs) ==
  IF xs = <<>> THEN <<>>
  ELSE LET init == Dedupe(SubSeq(xs, 1, Len(xs) - 1))
           last == xs[Len(xs)]
       IN IF \E i \in 1..Len(init) : init[i] = last THEN init ELSE Append(init, last)

Includes(xs, v) == \E i \in 1..Len(xs) : xs[i] = v

\* --------------------------------------------------------- upstream data
\* raw matches of the live feed (GetTopLiveGame game_list entries)
RawGame(mid, lid, rid, did, rname, dname, st) ==
  [isNull |-> FALSE, match_id |-> mid, league_id |-> lid,
   radiant_team_id |-> rid, dire_team_id |-> did,
   radiant_name |-> rname, dire_name |-> dname, series_type |-> st]

NullGame == [isNull |-> TRUE, match_id |-> Missing, league_id |-> Missing,
             radiant_team_id |-> Missing, dire_team_id |-> Missing,
             radiant_name |-> Undefined, dire_name |-> Undefined,
             series_type |-> Missing]

GamePool ==
  { RawGame(1, 100, 200, 300, <<"radiant_name", 1>>, <<"dire_name", 1>>, 0),
    RawGame(2, 100, 300, 200, <<"radiant_name", 2>>, <<"dire_name", 2>>, 1),
    RawGame(3, 101, 200, 0, <<"radiant_name", 3>>, Undefined, 2),
    RawGame(4, 0, 0, 0, Undefined, Undefined, 3),
    RawGame(5, Missing, Missing, Missing, <<"radiant_name", 5>>, <<"dire_name", 5>>, Missing),
    NullGame }

RECURSIVE SeqsUpTo(_, _)
SeqsUpTo(S, n) ==
  IF n = 0 THEN {<<>>}
  ELSE LET shorter == SeqsUpTo(S, n - 1)
       IN shorter \cup {Append(s, x) : s \in {t \in shorter : Len(t) = n - 1}, x \in S}

GameLists == SeqsUpTo(GamePool, MaxGames)

\* league catalog entries (GetLeagueListing result.leagues)
LeagueEntry(id) == [leagueid |-> id, name |-> <<"league name", id>>, tier |-> "premium"]
\* the call always returns the whole catalog; it may be empty
Catalogs == { <<>>, <<LeagueEntry(101), LeagueEntry(100)>> }

\* team entries (GetTeamInfoByTeamID result.teams)
\* team 200 has a name and a logo_url, team 300 only a logo
TeamEntry(id) ==
  IF id = 200
  THEN [name |-> <<"team name", id>>, tag |-> <<"tag", id>>,
        logo_url |-> <<"logo_url", id>>, logo |-> Undefined]
  ELSE [name |-> Undefined, tag |-> Undefined,
        logo_url |-> Undefined, logo |-> <<"logo", id>>]
\* the entry of a team after it was renamed upstream
TeamEntryRenamed(id) ==
  [TeamEntry(id) EXCEPT !.name = <<"new team name", id>>, !.logo_url = <<"new logo_url", id>>]
TeamLists(id) ==
  {<<>>, <<TeamEntry(id)>>} \cup (IF renames /\ id = 200 THEN {<<TeamEntryRenamed(id)>>} ELSE {})

\* ------------------------------------------------------- HTTP responses
NoItems == <<>>
\* body: parses = the text is JSON; has = the list field is present
Body(parses, has, items) == [parses |-> parses, has |-> has, items |-> items]
NoBody == Body(FALSE, FALSE, NoItems)
Response(status, body) == [kind |-> "response", status |-> status, body |-> body]
NetworkError == [kind |-> "error", status |-> 0, body |-> NoBody]
\* Response.ok
Ok(res) == res.status >= 200 /\ res.status <= 299

FeedOutcomes ==
  {NetworkError, Response(404, NoBody), Response(500, NoBody),
   Response(200, NoBody), Response(200, Body(TRUE, FALSE, NoItems))}
  \cup {Response(200, Body(TRUE, TRUE, gl)) : gl \in feeds}

LeagueOutcomes ==
  {NetworkError, Response(500, NoBody), Response(200, NoBody)}
  \cup {Response(200, Body(TRUE, TRUE, c)) : c \in Catalogs}

TeamOutcomes(id) ==
  {NetworkError, Response(500, NoBody), Response(200, NoBody)}
  \cup {Response(200, Body(TRUE, TRUE, t)) : t \in TeamLists(id)}

\* ------------------------------------------------------ fetchWithRetry
NoError == [message |-> "none", status |-> 0]
FetchFailed == [message |-> "fetch failed", status |-> 0]
\* new Error(`Request failed (${res.status})`)
RequestFailed(status) == [message |-> "Request failed", status |-> status]
NoResponse == Response(0, NoBody)

\* the state of one fetchWithRetry(url, init, retries, backoffMs) call
NewCall(retries, backoffMs) ==
  [state |-> "pending", attempt |-> 0, retries |-> retries, backoffMs |-> backoffMs,
   calls |-> 0, waits |-> <<>>, lastError |-> NoError, res |-> NoResponse,
   answers |-> <<>>]
NoCall == [NewCall(0, 0) EXCEPT !.state = "none"]

\* one iteration of the while loop: fetch answers out
ErrorOf(out) == IF out.kind = "response" THEN RequestFailed(out.status) ELSE FetchFailed

\* http.ts:18 with the test attempt === retries off by one
FetchAttemptOneMore(c, out) ==
  LET called == [c EXCEPT !.calls = @ + 1, !.answers = Append(@, out.status)]
  IN IF out.kind = "response" /\ Ok(out)
     THEN [called EXCEPT !.state = "returned", !.res = out]
     ELSE LET failed == [called EXCEPT !.lastError = ErrorOf(out)]
          IN IF c.attempt = c.retries + 1
             THEN [failed EXCEPT !.state = "thrown"]
             ELSE [failed EXCEPT !.waits = Append(@, c.backoffMs * Pow2(c.attempt)),
                                 !.attempt = @ + 1]

\* http.ts:12 without the res.ok test
FetchAttemptAnyResponse(c, out) ==
  LET called == [c EXCEPT !.calls = @ + 1, !.answers = Append(@, out.status)]
  IN IF out.kind = "response"
     THEN [called EXCEPT !.state = "returned", !.res = out]
     ELSE LET failed == [called EXCEPT !.lastError = ErrorOf(out)]
          IN IF c.attempt = c.retries
             THEN [failed EXCEPT !.state = "thrown"]
             ELSE [failed EXCEPT !.waits = Append(@, c.backoffMs * Pow2(c.attempt)),
                                 !.attempt = @ + 1]

\* http.ts:19 with a constant delay
FetchAttemptConstantBackoff(c, out) ==
  LET called == [c EXCEPT !.calls = @ + 1, !.answers = Append(@, out.status)]
  IN IF out.kind = "response" /\ Ok(out)
     THEN [called EXCEPT !.state = "returned", !.res = out]
     ELSE LET failed == [called EXCEPT !.lastError = ErrorOf(out)]
          IN IF c.attempt = c.retries
             THEN [failed EXCEPT !.state = "thrown"]
             ELSE [failed EXCEPT !.waits = Append(@, c.backoffMs),
                                 !.attempt = @ + 1]

FetchAttempt(c, out) ==
  LET called == [c EXCEPT !.calls = @ + 1, !.answers = Append(@, out.status)]
  IN IF out.kind = "response" /\ Ok(out)
     THEN [called EXCEPT !.state = "returned", !.res = out]
     ELSE LET err == ErrorOf(out)
              failed == [called EXCEPT !.lastError = err]
          IN IF c.attempt = c.retries
             THEN [failed EXCEPT !.state = "thrown"]
             ELSE [failed EXCEPT !.waits = Append(@, c.backoffMs * Pow2(c.attempt)),
                                 !.attempt = @ + 1]

\* ----------------------------------------------------------- seriesText
\* lines 447-458 with two cases swapped
seriesTextSwapped(seriesType) ==
  CASE seriesType = 0 -> "Bo1"
    [] seriesType = 1 -> "Bo5"
    [] seriesType = 2 -> "Bo3"
    [] OTHER -> "Live"

seriesText(seriesType) ==
  CASE seriesType = 0 -> "Bo1"
    [] seriesType = 1 -> "Bo3"
    [] seriesType = 2 -> "Bo5"
    [] OTHER -> "Live"

\* --------------------------------------------------------------- caches
\* line 472: cached && cached.lastUpdated > staleBefore
LeagueFreshOffByOne(cache, id, staleBefore) ==
  MapHas(cache, id) /\ cache[id].lastUpdated > staleBefore + 1
LeagueFresh(cache, id, staleBefore) ==
  MapHas(cache, id) /\ cache[id].lastUpdated > staleBefore

\* line 498: cached && cached.lastUpdated > staleBefore
TeamFreshInverted(cache, id, staleBefore) ==
  MapHas(cache, id) /\ cache[id].lastUpdated < staleBefore
TeamFresh(cache, id, staleBefore) ==
  MapHas(cache, id) /\ cache[id].lastUpdated > staleBefore

\* ------------------------------------------------------- hydrateLeagues
NoLeagues == [state |-> "none", ids |-> <<>>, staleBefore |-> 0, map |-> EmptyMap,
              call |-> NoCall]

\* lines 468-479 without the early return of line 477
hydrateLeaguesStartAlwaysCalls(ids, cache, now) ==
  LET staleBefore == now - FreshnessMs
      hits == {ids[i] : i \in {j \in 1..Len(ids) : LeagueFresh(cache, ids[j], staleBefore)}}
      map == [id \in hits |-> [name |-> cache[id].name, tier |-> cache[id].tier]]
  IN [state |-> "pending", ids |-> ids, staleBefore |-> staleBefore, map |-> map,
      call |-> NewCall(LeagueRetries, BackoffMs)]
\* lines 468-479, taking an ID that a freshly fetched catalog did not hold
\* as known to be absent
hydrateLeaguesStartRemembersAbsent(ids, cache, now) ==
  LET staleBefore == now - FreshnessMs
      hits == {ids[i] : i \in {j \in 1..Len(ids) : LeagueFresh(cache, ids[j], staleBefore)}}
      map == [id \in hits |-> [name |-> cache[id].name, tier |-> cache[id].tier]]
      freshCatalog == \E k \in DOMAIN cache : LeagueFresh(cache, k, staleBefore)
      missing == SelectSeq(ids, LAMBDA id : ~MapHas(map, id) /\ (MapHas(cache, id) \/ ~freshCatalog))
  IN IF missing = <<>>
     THEN [state |-> "resolved", ids |-> ids, staleBefore |-> staleBefore, map |-> map,
           call |-> NoCall]
     ELSE [state |-> "pending", ids |-> ids, staleBefore |-> staleBefore, map |-> map,
           call |-> NewCall(LeagueRetries, BackoffMs)]
\* lines 468-479: up to the first await
hydrateLeaguesStart(ids, cache, now) ==
  LET staleBefore == now - FreshnessMs
      hits == {ids[i] : i \in {j \in 1..Len(ids) : LeagueFresh(cache, ids[j], staleBefore)}}
      map == [id \in hits |-> [name |-> cache[id].name, tier |-> cache[id].tier]]
      missing == SelectSeq(ids, LAMBDA id : ~MapHas(map, id))
  IN IF missing = <<>>
     THEN [state |-> "resolved", ids |-> ids, staleBefore |-> staleBefore, map |-> map,
           call |-> NoCall]
     ELSE [state |-> "pending", ids |-> ids, staleBefore |-> staleBefore, map |-> map,
           call |-> NewCall(LeagueRetries, BackoffMs)]

\* lines 482-487, caching only the leagues that are not cached yet
LeagueCacheAfterNewOnly(cache, leagues, n, now) ==
  LET new == {i \in 1..n : ~MapHas(cache, leagues[i].leagueid)}
  IN [id \in (DOMAIN cache) \cup {leagues[i].leagueid : i \in new} |->
        IF MapHas(cache, id) THEN cache[id]
        ELSE LET i == CHOOSE j \in new : leagues[j].leagueid = id
             IN [name |-> leagues[i].name, tier |-> leagues[i].tier, lastUpdated |-> now]]
\* lines 482-487: leagues.forEach over the first n entries
RECURSIVE LeagueCacheAfter(_, _, _, _)
LeagueCacheAfter(cache, leagues, n, now) ==
  IF n = 0 THEN cache
  ELSE MapSet(LeagueCacheAfter(cache, leagues, n - 1, now), leagues[n].leagueid,
              [name |-> leagues[n].name, tier |-> leagues[n].tier, lastUpdated |-> now])

RECURSIVE LeagueMapAfter(_, _, _, _)
LeagueMapAfter(map, ids, leagues, n) ==
  IF n = 0 THEN map
  ELSE LET before == LeagueMapAfter(map, ids, leagues, n - 1)
       IN IF Includes(ids, leagues[n].leagueid)
          THEN MapSet(before, leagues[n].leagueid,
                      [name |-> leagues[n].name, tier |-> leagues[n].tier])
          ELSE before

\* -------------------------------------------------------- hydrateTeams
NoTeams == [state |-> "none", ids |-> <<>>, staleBefore |-> 0, map |-> EmptyMap,
            missing |-> <<>>, cur |-> 0, call |-> NoCall,
            fetches |-> <<>>, failed |-> {}, found |-> {}]

\* lines 492-505, with the stale entries put in the map as well
hydrateTeamsStartKeepsStale(ids, cache, now) ==
  LET staleBefore == now - FreshnessMs
      truthy == SelectSeq(ids, LAMBDA id : id # 0)
      hits == {truthy[i] : i \in {j \in 1..Len(truthy) : TeamFresh(cache, truthy[j], staleBefore)}}
      cached == {truthy[i] : i \in {j \in 1..Len(truthy) : MapHas(cache, truthy[j])}}
      map == [id \in cached |-> [name |-> cache[id].name, logo |-> cache[id].logo]]
      missing == SelectSeq(truthy, LAMBDA id : id \notin hits)
  IN IF missing = <<>>
     THEN [NoTeams EXCEPT !.state = "resolved", !.ids = ids, !.staleBefore = staleBefore,
                          !.map = map]
     ELSE [NoTeams EXCEPT !.state = "pending", !.ids = ids, !.staleBefore = staleBefore,
                          !.map = map, !.missing = missing, !.cur = 1,
                          !.call = NewCall(TeamRetries, BackoffMs)]
\* lines 492-505: up to the first await
hydrateTeamsStart(ids, cache, now) ==
  LET staleBefore == now - FreshnessMs
      truthy == SelectSeq(ids, LAMBDA id : id # 0)
      hits == {truthy[i] : i \in {j \in 1..Len(truthy) : TeamFresh(cache, truthy[j], staleBefore)}}
      map == [id \in hits |-> [name |-> cache[id].name, logo |-> cache[id].logo]]
      missing == SelectSeq(truthy, LAMBDA id : id \notin hits)
  IN IF missing = <<>>
     THEN [NoTeams EXCEPT !.state = "resolved", !.ids = ids, !.staleBefore = staleBefore,
                          !.map = map]
     ELSE [NoTeams EXCEPT !.state = "pending", !.ids = ids, !.staleBefore = staleBefore,
                          !.map = map, !.missing = missing, !.cur = 1,
                          !.call = NewCall(TeamRetries, BackoffMs)]

\* lines 511-513: the entry built from result.teams[0]
TeamValue(id, entry) ==
  [name |-> Or(entry.name, Or(entry.tag, <<"Team", id>>)),
   logo |-> Or(entry.logo_url, entry.logo)]

\* line 512, skipped when the cache already holds a fresh entry
TeamCacheAfterKeepsFresh(cache, id, v, now) ==
  IF TeamFresh(cache, id, now - FreshnessMs) THEN cache
  ELSE MapSet(cache, id, [name |-> v.name, logo |-> v.logo, lastUpdated |-> now])
\* line 512, also dropping the entries that are no longer fresh
TeamCacheAfterEvicts(cache, id, v, now) ==
  LET kept == {k \in DOMAIN cache : TeamFresh(cache, k, now - FreshnessMs)}
  IN [k \in kept \cup {id} |->
        IF k = id THEN [name |-> v.name, logo |-> v.logo, lastUpdated |-> now] ELSE cache[k]]
\* line 512: teamCache.set(id, { name, logo, lastUpdated: Date.now() })
TeamCacheAfter(cache, id, v, now) ==
  MapSet(cache, id, [name |-> v.name, logo |-> v.logo, lastUpdated |-> now])

\* the for loop ended after its first round
NextTeamStops(t) == [t EXCEPT !.state = "resolved", !.call = NoCall]
\* the for loop moves on to the next missing id, or returns the map
NextTeam(t) ==
  IF t.cur < Len(t.missing)
  THEN [t EXCEPT !.cur = @ + 1, !.call = NewCall(TeamRetries, BackoffMs)]
  ELSE [t EXCEPT !.state = "resolved", !.call = NoCall]

\* lines 515-517: the catch of one lookup; the loop goes on
TeamFailedAborts(t, id) ==
  [t EXCEPT !.failed = @ \cup {id}, !.state = "resolved", !.call = NoCall]
\* lines 515-517 with the failed lookup issued again
TeamFailedLooksUpAgain(t, id) == [t EXCEPT !.call = NewCall(TeamRetries, BackoffMs)]
TeamFailed(t, id) == NextTeam([t EXCEPT !.failed = @ \cup {id}])

\* lines 510-514: result.teams[0] is cached and put in the map
TeamFound(t, id, entry) ==
  NextTeam([t EXCEPT !.map = MapSet(@, id, TeamValue(id, entry)), !.found = @ \cup {id}])

\* ------------------------------------------------- getFeaturedDotaGames
\* lines 390-399
LeagueIdsOf(games) ==
  Dedupe(SelectSeq([i \in 1..Len(games) |-> games[i].league_id], IsFinite))
TeamIdsOf(games) ==
  Dedupe(SelectSeq([i \in 1..(2 * Len(games)) |->
                      IF i % 2 = 1 THEN games[(i + 1) \div 2].radiant_team_id
                      ELSE games[i \div 2].dire_team_id], IsFinite))

\* map.get(id)?.field
MapGet(map, id, field) == IF MapHas(map, id) THEN map[id][field] ELSE Undefined

\* line 426
LeagueNameOrLabel(g, leagueMap) ==
  Or(MapGet(leagueMap, g.league_id, "name"), <<"League", g.league_id>>)
LeagueNameOf(g, leagueMap) == MapGet(leagueMap, g.league_id, "name")

\* lines 403-444 with a label for a side that has no name
HydratedGameLabelled(g, leagueMap, teamMap) ==
  [matchId |-> g.match_id,
   radiant |-> [name |-> Or(Or(MapGet(teamMap, g.radiant_team_id, "name"), g.radiant_name),
                            <<"Team", g.radiant_team_id>>),
                logo |-> MapGet(teamMap, g.radiant_team_id, "logo"),
                id |-> g.radiant_team_id],
   dire |-> [name |-> Or(Or(MapGet(teamMap, g.dire_team_id, "name"), g.dire_name),
                         <<"Team", g.dire_team_id>>),
             logo |-> MapGet(teamMap, g.dire_team_id, "logo"),
             id |-> g.dire_team_id],
   league |-> g.league_id,
   leagueName |-> LeagueNameOf(g, leagueMap),
   seriesType |-> seriesText(g.series_type)]
\* lines 403-444, one element of games.map
HydratedGame(g, leagueMap, teamMap) ==
  [matchId |-> g.match_id,
   radiant |-> [name |-> Or(MapGet(teamMap, g.radiant_team_id, "name"), g.radiant_name),
                logo |-> MapGet(teamMap, g.radiant_team_id, "logo"),
                id |-> g.radiant_team_id],
   dire |-> [name |-> Or(MapGet(teamMap, g.dire_team_id, "name"), g.dire_name),
             logo |-> MapGet(teamMap, g.dire_team_id, "logo"),
             id |-> g.dire_team_id],
   league |-> g.league_id,
   leagueName |-> LeagueNameOf(g, leagueMap),
   seriesType |-> seriesText(g.series_type)]

HydrateGamesReversed(games, leagueMap, teamMap) ==
  [i \in 1..Len(games) |-> HydratedGame(games[Len(games) + 1 - i], leagueMap, teamMap)]
HydrateGames(games, leagueMap, teamMap) ==
  [i \in 1..Len(games) |-> HydratedGame(games[i], leagueMap, teamMap)]

\* lines 375-378: .catch turns a rejected fetchWithRetry into null
NullResponse == [kind |-> "null", status |-> 0, body |-> NoBody]
FeedCaughtAsResponse(c) ==
  IF c.state = "thrown" THEN Response(c.lastError.status, NoBody) ELSE c.res
FeedCaught(c) == IF c.state = "thrown" THEN NullResponse ELSE c.res

\* lines 379-390: what the function does with resp before hydration
\*   "return": returns games (empty); "throw": throws; "hydrate": goes on
FeedResultNullThrows(resp) ==
  IF resp.kind = "null" THEN [kind |-> "throw", games |-> <<>>]
  ELSE IF ~Ok(resp)
       THEN IF resp.status = 404 THEN [kind |-> "return", games |-> <<>>]
            ELSE [kind |-> "throw", games |-> <<>>]
  ELSE IF ~resp.body.parses THEN [kind |-> "throw", games |-> <<>>]
  ELSE LET games == IF resp.body.has THEN resp.body.items ELSE <<>>
       IN IF \E i \in 1..Len(games) : games[i].isNull
          THEN [kind |-> "throw", games |-> games]
          ELSE [kind |-> "hydrate", games |-> games]
FeedResult(resp) ==
  IF resp.kind = "null" THEN [kind |-> "return", games |-> <<>>]
  ELSE IF ~Ok(resp)
       THEN IF resp.status = 404 THEN [kind |-> "return", games |-> <<>>]
            ELSE [kind |-> "throw", games |-> <<>>]
  ELSE IF ~resp.body.parses THEN [kind |-> "throw", games |-> <<>>]
  ELSE LET games == IF resp.body.has THEN resp.body.items ELSE <<>>
       IN IF \E i \in 1..Len(games) : games[i].isNull
          THEN [kind |-> "throw", games |-> games]
          ELSE [kind |-> "hydrate", games |-> games]

\* --------------------------------------------- GET /live/dota/featured
NoResp == [status |-> 0, error |-> "none", count |-> 0, items |-> <<>>]
\* res.json({ count: games.length, items: games })
Json200(games) == [status |-> 200, error |-> "none", count |-> Len(games), items |-> games]
\* res.status(500).json({ error, message })
Json500(error) == [status |-> 500, error |-> error, count |-> 0, items |-> <<>>]

IdleReq ==
  [pc |-> "idle", feed |-> NoCall, games |-> <<>>, lg |-> NoLeagues, tm |-> NoTeams,
   resp |-> NoResp, now0 |-> 0, leagueCache0 |-> EmptyMap, teamCache0 |-> EmptyMap]

\* line 401 and lines 159-164, with the team loop stopped by a rejection
SettleCancelsTeams(q) ==
  IF q.resp.status # 0 THEN q
  ELSE IF q.lg.state = "rejected"
       THEN [q EXCEPT !.pc = "done", !.resp = Json500("failed_to_fetch_live"),
                      !.tm.state = "resolved", !.tm.call = NoCall]
  ELSE IF q.lg.state = "resolved" /\ q.tm.state = "resolved"
       THEN [q EXCEPT !.pc = "done",
                      !.resp = Json200(HydrateGames(q.games, q.lg.map, q.tm.map))]
  ELSE q
\* line 401 and lines 159-164: Promise.all settles, the handler answers
Settle(q) ==
  IF q.resp.status # 0 THEN q
  ELSE IF q.lg.state = "rejected"
       THEN [q EXCEPT !.pc = "done", !.resp = Json500("failed_to_fetch_live")]
  ELSE IF q.lg.state = "resolved" /\ q.tm.state = "resolved"
       THEN [q EXCEPT !.pc = "done",
                      !.resp = Json200(HydrateGames(q.games, q.lg.map, q.tm.map))]
  ELSE q

\* lines 375-401: the code that runs when fetchWithRetry of the feed settles
AfterFeed(q, lcache, tcache, now) ==
  LET fr == FeedResult(FeedCaught(q.feed))
  IN CASE fr.kind = "return" ->
            [q EXCEPT !.pc = "done", !.resp = Json200(fr.games)]
       [] fr.kind = "throw" ->
            [q EXCEPT !.pc = "done", !.resp = Json500("failed_to_fetch_live")]
       [] OTHER ->
            Settle([q EXCEPT !.pc = "hydrate", !.games = fr.games,
                             !.now0 = now, !.leagueCache0 = lcache, !.teamCache0 = tcache,
                             !.lg = hydrateLeaguesStart(LeagueIdsOf(fr.games), lcache, now),
                             !.tm = hydrateTeamsStart(TeamIdsOf(fr.games), tcache, now)])

vars == <<steamApiKey, slots, transient, feeds, clock, ticks, leagueCache, teamCache, req,
          gw, profiles, tokens, faults, renames, metadataGames, cacheReqs,
          liveMatches, streams, listeners, watchers, emits>>
\* the state of the game-stats service
stats == <<clock, ticks, leagueCache, teamCache, req>>
\* the state of the other services
outside == <<gw, profiles, tokens, metadataGames, cacheReqs,
             liveMatches, streams, listeners, watchers, emits>>
\* the state of the live-service
live == <<liveMatches, streams, listeners, watchers, emits>>
\* the state of the metadata-service
metadata == <<metadataGames, cacheReqs>>
\* the state of the auth-service
authService == <<profiles, tokens>>
\* the scenario: which handler invocations run, whether an upstream that
\* failed an attempt may answer differently on the retry, and the match
\* lists the live feed can return
scenario == <<steamApiKey, slots, transient, feeds, faults, renames>>

\* the answers the upstream can give to the next attempt of call c
Answers(c, outcomes) ==
  {out \in outcomes :
     /\ faults \/ (out.kind = "response" /\ Ok(out) /\ out.body.parses)
     /\ \/ transient
        \/ c.attempt = 0
        \/ ~(out.kind = "response" /\ Ok(out)) /\ ErrorOf(out) = c.lastError}

\* ---------------------------------------------------------- api-gateway
\* a request path as its segments, e.g. <<"metadata", "games">>
Paths ==
  { <<"health">>, <<"metrics">>, <<"admin", "usage">>,
    <<"metadata">>, <<"metadata", "games">>, <<"live", "dota">>, <<"stats", "live">>,
    <<"auth", "steam">>, <<"auth">>, <<"authority", "x">>, <<"other">> }
\* s.startsWith("auth") for the first segments of Paths
SegmentStartsWithAuth(seg) == seg \in {"auth", "authority"}

\* a bearer token: what jwt.verify(token, jwtSecret) makes of it
NoRoles == [has |-> FALSE, list |-> <<>>]
Roles(list) == [has |-> TRUE, list |-> list]
RoleClaims == {NoRoles, Roles(<<>>), Roles(<<"user">>), Roles(<<"admin">>),
               Roles(<<"user", "admin">>)}
Tokens ==
  [verifies : {TRUE}, metrics : {FALSE}, roles : RoleClaims]
  \cup {[verifies |-> FALSE, metrics |-> FALSE, roles |-> Roles(<<"user", "admin">>)],
        [verifies |-> FALSE, metrics |-> TRUE, roles |-> NoRoles]}
NoToken == [verifies |-> FALSE, metrics |-> FALSE, roles |-> NoRoles]
\* the Authorization header
Headers ==
  {[scheme |-> "none", token |-> NoToken], [scheme |-> "Basic", token |-> NoToken]}
  \cup {[scheme |-> "Bearer", token |-> t] : t \in Tokens}

Exchange(path, header, status, body, target) ==
  [path |-> path, header |-> header, status |-> status, body |-> body, target |-> target]
\* the outcome of a middleware: answered, forwarded or passed on (next())
Answer(status, body) == [status |-> status, body |-> body, target |-> "none"]
Forward(target) == [status |-> 0, body |-> "proxied", target |-> target]
PassOn == [status |-> 0, body |-> "next", target |-> "none"]

\* http.ts:155-160
shouldSkipAuth(path) ==
  \/ path = <<"health">>
  \/ SegmentStartsWithAuth(path[1])
  \/ path = <<"metrics">>

\* http.ts:97-113 without the roles test
GatewayAuthVerifyOnly(path, header) ==
  IF shouldSkipAuth(path) THEN PassOn
  ELSE IF header.scheme # "Bearer" THEN Answer(401, "unauthorized")
  ELSE IF ~header.token.verifies THEN Answer(401, "unauthorized")
  ELSE PassOn
\* http.ts:97-113: the JWT middleware
GatewayAuth(path, header) ==
  IF shouldSkipAuth(path) THEN PassOn
  ELSE IF header.scheme # "Bearer" THEN Answer(401, "unauthorized")
  ELSE IF ~header.token.verifies THEN Answer(401, "unauthorized")
  ELSE IF ~header.token.roles.has \/ Len(header.token.roles.list) = 0
       THEN Answer(403, "forbidden")
  ELSE PassOn

\* http.ts:74-89 with the test of the gateway middleware (any role)
AdminUsageAnyRole(header) ==
  IF header.scheme # "Bearer" THEN Answer(401, "unauthorized")
  ELSE IF ~header.token.verifies THEN Answer(401, "unauthorized")
  ELSE IF ~header.token.roles.has \/ Len(header.token.roles.list) = 0
       THEN Answer(403, "forbidden")
  ELSE Answer(200, "metrics")
\* http.ts:74-89: GET /admin/usage
AdminUsage(header) ==
  IF header.scheme # "Bearer" THEN Answer(401, "unauthorized")
  ELSE IF ~header.token.verifies THEN Answer(401, "unauthorized")
  ELSE IF ~header.token.roles.has \/ ~Includes(header.token.roles.list, "admin")
       THEN Answer(403, "forbidden")
  ELSE Answer(200, "metrics")

\* http.ts:66-72: GET /metrics
GatewayMetrics(header) ==
  IF header.scheme = "Bearer" /\ header.token.metrics
  THEN Answer(200, "metrics") ELSE Answer(401, "unauthorized")

\* http.ts:115-153: the proxies, in the order they are mounted
GatewayProxy(path) ==
  IF path[1] = "metadata" THEN Forward("metadata")
  ELSE IF path[1] = "auth" /\ Len(path) > 1 THEN Forward("auth")
  ELSE IF path[1] = "live" THEN Forward("live")
  ELSE IF path[1] = "stats" THEN Forward("stats")
  ELSE Answer(404, "not found")

\* http.ts:58-153: the middleware chain for a GET request
GatewayHandle(path, header) ==
  IF path = <<"health">> THEN Answer(200, "health")
  ELSE IF path = <<"metrics">> THEN GatewayMetrics(header)
  ELSE IF path = <<"admin", "usage">> THEN AdminUsage(header)
  ELSE LET auth == GatewayAuth(path, header)
       IN IF auth # PassOn THEN auth ELSE GatewayProxy(path)

NoExchange == Exchange(<<>>, [scheme |-> "none", token |-> NoToken], 0, "none", "none")

\* --------------------------------------------------------- auth-service
\* ADMIN_STEAM_IDS, split and trimmed (auth-service index.ts:52)
adminSteamIds == <<"76561198000000001">>
\* nanoid() used as a steamId: a fresh random string
GeneratedSteamId == "nanoid"
SteamIds == {"76561198000000001", "76561198000000002"}
\* req.body of POST /steam/callback: steamId and personaName may be absent
Personas == {Undefined, <<"persona", 1>>}
LoginBodies == [steamId : SteamIds \cup {""}, personaName : Personas, admin : BOOLEAN]
\* the result of rp.verifyAssertion: an error, or a claimed identifier
Assertions ==
  {[err |-> TRUE, steamId |-> ""]} \cup [err : {FALSE}, steamId : SteamIds \cup {""}]

NewProfile(id, steamId, personaName, roles) ==
  [id |-> id, steamId |-> steamId, personaName |-> personaName, roles |-> roles]
\* auth-service index.ts:71-81
issueToken(profile) ==
  [sub |-> profile.id, steamId |-> profile.steamId,
   personaName |-> profile.personaName, roles |-> profile.roles]
DefaultPersona(steamId) == <<"User", steamId>>
WhitelistRoles(steamId) == IF Includes(adminSteamIds, steamId) THEN <<"admin">> ELSE <<>>

\* auth-service index.ts:110-116: the profile of POST /steam/callback
PostCallbackProfile(id, body) ==
  LET steamId == IF body.steamId # "" THEN body.steamId ELSE GeneratedSteamId
      personaName == Or(body.personaName, DefaultPersona(steamId))
      isAdmin == body.admin
  IN NewProfile(id, steamId, personaName,
                <<"user">> \o (IF isAdmin THEN <<"admin">> ELSE <<>>) \o WhitelistRoles(steamId))

\* auth-service index.ts:190-193: the profile of the OpenID callback
OpenIdProfile(id, steamId, persona) ==
  NewProfile(id, steamId, Or(persona, DefaultPersona(steamId)),
             <<"user">> \o WhitelistRoles(steamId))

\* ----------------------------------------------------- metadata-service
\* an entry of the games list; the other fields follow from the appId
Game(appId) == [appId |-> appId, name |-> <<"name", appId>>]
\* data/games.ts: the list the service starts with
SeedGames ==
  <<Game("570"), Game("730"), Game("440"), Game("578080"), Game("1172470"), Game("271590")>>
\* the appId of a request: absent, in the seed list, or new
AppIds == {"", "570", "620", "400"}
MetaReqs == {"m1", "m2"}
\* what the appdetails call of the Steam store gives
StoreOutcomes == {"network error", "not ok", "not json", "no success", "data"}

NoCacheResp == [status |-> 0, cached |-> "none", item |-> Undefined, error |-> "none"]
IdleCacheReq == [pc |-> "idle", appId |-> "", resp |-> NoCacheResp]
CacheJson(item, cached) ==
  [status |-> 200, cached |-> cached, item |-> item, error |-> "none"]
CacheError(status, error) ==
  [status |-> status, cached |-> "none", item |-> Undefined, error |-> error]

\* games.find((g) => g.appId === appId)
FindGame(list, appId) ==
  IF \E i \in 1..Len(list) : list[i].appId = appId
  THEN list[CHOOSE i \in 1..Len(list) :
              list[i].appId = appId /\ \A j \in 1..(i - 1) : list[j].appId # appId]
  ELSE Undefined

\* ----------------------------------------------------------- live-service
\* the :matchId of a request; "demo-570" exists from the start (http.ts:295)
MatchIds == {"demo-570", "match-2"}
\* one SSE response: what was written to it, and how much of it was
\* written by the time the request closed
NewStream(matchId) ==
  [matchId |-> matchId, open |-> TRUE, written |-> <<"init">>, atClose |-> 0]
\* ensureMatch (http.ts:261-275)
ensureMatch(ms, matchId) == ms \cup {matchId}
\* bus.on(matchId, handler): the handler of stream s is added
BusOn(bus, matchId, s) == [bus EXCEPT ![matchId] = Append(@, s)]
\* bus.off(matchId, handler), removing every listener of the match
BusOffAll(bus, matchId, s) == [bus EXCEPT ![matchId] = <<>>]
\* bus.off(matchId, handler): the handler of stream s is removed
BusOff(bus, matchId, s) == [bus EXCEPT ![matchId] = SelectSeq(@, LAMBDA h : h # s)]
\* bus.emit(matchId, match): every listener of the match writes one event
Emit(ss, bus, ms) ==
  [s \in DOMAIN ss |->
     IF ss[s].matchId \in ms /\ Includes(bus[ss[s].matchId], s)
     THEN [ss[s] EXCEPT !.written = Append(@, "tick")]
     ELSE ss[s]]

InitCommon ==
  /\ liveMatches = {"demo-570"}
  /\ streams = <<>>
  /\ listeners = [m \in MatchIds |-> <<>>]
  /\ watchers = [m \in MatchIds |-> 0]
  /\ emits = 0
  /\ metadataGames = SeedGames
  /\ cacheReqs = [m \in MetaReqs |-> IdleCacheReq]
  /\ gw = NoExchange
  /\ profiles = <<>>
  /\ tokens = <<>>
  /\ steamApiKey \in BOOLEAN
  /\ clock = 0
  /\ ticks = 0
  /\ leagueCache = EmptyMap
  /\ teamCache = EmptyMap
  /\ req = [r \in Reqs |-> IdleReq]

Init ==
  /\ InitCommon /\ slots = {"r1"} /\ transient = FALSE /\ feeds = GameLists
  /\ faults = TRUE /\ renames = FALSE

\* Date.now() moves on: to 1 ms before a freshness window ends, then to its end
TickStep(n) == IF n % 2 = 0 THEN FreshnessMs - 1 ELSE 1
Tick ==
  /\ ticks < MaxTicks
  /\ clock' = clock + TickStep(ticks)
  /\ ticks' = ticks + 1
  /\ UNCHANGED <<scenario, outside, leagueCache, teamCache, req>>

\* lines 156-159 and 374-375: the handler is entered
Request(r) ==
  /\ r \in slots
  /\ req[r].pc \in {"idle", "done"}
  /\ req[r].tm.state # "pending"
  /\ req' = [req EXCEPT ![r] =
              IF ~steamApiKey
              THEN [IdleReq EXCEPT !.pc = "done", !.resp = Json500("missing_api_key")]
              ELSE [IdleReq EXCEPT !.pc = "feed", !.feed = NewCall(FeedRetries, BackoffMs)]]
  /\ UNCHANGED <<scenario, outside, clock, ticks, leagueCache, teamCache>>

\* one fetch attempt of the live feed, and what follows it up to the next await
FeedAttempt(r) ==
  /\ req[r].pc = "feed"
  /\ \E out \in Answers(req[r].feed, FeedOutcomes) :
       LET c == FetchAttempt(req[r].feed, out)
           q == [req[r] EXCEPT !.feed = c]
       IN req' = [req EXCEPT ![r] =
                    IF c.state = "pending" THEN q
                    ELSE AfterFeed(q, leagueCache, teamCache, clock)]
  /\ UNCHANGED <<scenario, outside, clock, ticks, leagueCache, teamCache>>

\* one fetch attempt of the league catalog, then lines 480-488
LeagueAttempt(r) ==
  /\ req[r].lg.state = "pending"
  /\ \E out \in Answers(req[r].lg.call, LeagueOutcomes) :
       LET lg == req[r].lg
           c == FetchAttempt(lg.call, out)
           leagues == IF c.res.body.has THEN c.res.body.items ELSE <<>>
       IN CASE c.state = "pending" ->
                 /\ req' = [req EXCEPT ![r].lg.call = c]
                 /\ UNCHANGED leagueCache
            [] c.state = "thrown" \/ ~c.res.body.parses ->
                 /\ req' = [req EXCEPT ![r] =
                              Settle([req[r] EXCEPT !.lg.call = c, !.lg.state = "rejected"])]
                 /\ UNCHANGED leagueCache
            [] OTHER ->
                 /\ leagueCache' = LeagueCacheAfter(leagueCache, leagues, Len(leagues), clock)
                 /\ req' = [req EXCEPT ![r] =
                              Settle([req[r] EXCEPT
                                !.lg.call = c, !.lg.state = "resolved",
                                !.lg.map = LeagueMapAfter(lg.map, lg.ids, leagues, Len(leagues))])]
  /\ UNCHANGED <<scenario, outside, clock, ticks, teamCache>>

\* one fetch attempt of a team lookup, then lines 508-518
TeamAttempt(r) ==
  /\ req[r].tm.state = "pending"
  /\ LET tm == req[r].tm
         id == tm.missing[tm.cur]
     IN \E out \in Answers(tm.call, TeamOutcomes(id)) :
          LET c == FetchAttempt(tm.call, out)
              t == [tm EXCEPT !.call = c, !.fetches = Append(@, id)]
              teams == IF c.res.body.has THEN c.res.body.items ELSE <<>>
          IN CASE c.state = "pending" ->
                    /\ req' = [req EXCEPT ![r].tm = t]
                    /\ UNCHANGED teamCache
               [] c.state = "thrown" \/ ~c.res.body.parses ->
                    /\ req' = [req EXCEPT ![r] =
                                 Settle([req[r] EXCEPT !.tm = TeamFailed(t, id)])]
                    /\ UNCHANGED teamCache
               [] teams = <<>> ->
                    /\ req' = [req EXCEPT ![r] = Settle([req[r] EXCEPT !.tm = NextTeam(t)])]
                    /\ UNCHANGED teamCache
               [] OTHER ->
                    LET v == TeamValue(id, teams[1])
                    IN /\ teamCache' = TeamCacheAfter(teamCache, id, v, clock)
                       /\ req' = [req EXCEPT ![r] =
                                    Settle([req[r] EXCEPT !.tm = TeamFound(t, id, teams[1])])]
  /\ UNCHANGED <<scenario, outside, clock, ticks, leagueCache>>

Next ==
  \/ Tick
  \/ \E r \in Reqs : Request(r)
  \/ \E r \in Reqs : FeedAttempt(r)
  \/ \E r \in Reqs : LeagueAttempt(r)
  \/ \E r \in Reqs : TeamAttempt(r)

Spec == Init /\ [][Next]_vars

\* the api-gateway answers one GET request
GatewayRequest ==
  /\ \E path \in Paths, header \in Headers :
       LET out == GatewayHandle(path, header)
       IN gw' = Exchange(path, header, out.status, out.body, out.target)
  /\ UNCHANGED <<scenario, stats, authService, metadata, live>>

NextGateway == GatewayRequest
SpecGateway == Init /\ [][NextGateway]_vars

\* POST /steam/callback (auth-service index.ts:110-122)
PostSteamCallback ==
  /\ Len(profiles) < MaxProfiles
  /\ \E body \in LoginBodies :
       LET profile == PostCallbackProfile(Len(profiles) + 1, body)
       IN /\ profiles' = Append(profiles, profile)
          /\ tokens' = Append(tokens, issueToken(profile))
  /\ UNCHANGED <<scenario, stats, gw, metadata, live>>

\* GET /steam/callback (auth-service index.ts:173-216)
OpenIdCallback ==
  /\ Len(profiles) < MaxProfiles
  /\ \E assertion \in Assertions, persona \in Personas :
       IF assertion.err \/ assertion.steamId = ""
       THEN UNCHANGED authService
       ELSE LET profile == OpenIdProfile(Len(profiles) + 1, assertion.steamId, persona)
            IN /\ profiles' = Append(profiles, profile)
               /\ tokens' = Append(tokens, issueToken(profile))
  /\ UNCHANGED <<scenario, stats, gw, metadata, live>>

NextAuth == PostSteamCallback \/ OpenIdCallback
SpecAuth == Init /\ [][NextAuth]_vars

\* the appdetails calls under way
Fetching == {m \in MetaReqs : cacheReqs[m].pc = "fetching"}

\* POST /games/cache up to its first await (metadata-service index.ts:101-109)
CachePost(m) ==
  /\ cacheReqs[m].pc \in {"idle", "done"}
  /\ Len(metadataGames) + Cardinality(Fetching) < MaxListed
  /\ \E appId \in AppIds :
       LET existing == FindGame(metadataGames, appId)
       IN cacheReqs' = [cacheReqs EXCEPT ![m] =
            IF appId = ""
            THEN [pc |-> "done", appId |-> appId, resp |-> CacheError(400, "missing_app_id")]
            ELSE IF existing # Undefined
            THEN [pc |-> "done", appId |-> appId, resp |-> CacheJson(existing, "true")]
            ELSE [pc |-> "fetching", appId |-> appId, resp |-> NoCacheResp]]
  /\ UNCHANGED <<scenario, stats, gw, authService, metadataGames, live>>

\* the appdetails call settles (metadata-service index.ts:109-129)
CacheFetched(m) ==
  /\ cacheReqs[m].pc = "fetching"
  /\ \E out \in StoreOutcomes :
       IF out = "data"
       THEN LET newGame == Game(cacheReqs[m].appId)
            IN /\ metadataGames' = Append(metadataGames, newGame)
               /\ cacheReqs' = [cacheReqs EXCEPT ![m].pc = "done",
                                                  ![m].resp = CacheJson(newGame, "false")]
       ELSE /\ cacheReqs' = [cacheReqs EXCEPT ![m].pc = "done",
                                               ![m].resp = CacheError(500, "cache_add_failed")]
            /\ UNCHANGED metadataGames
  /\ UNCHANGED <<scenario, stats, gw, authService, live>>

\* GET /dota/matches/:matchId/stream (http.ts:237-259)
StreamOpen ==
  /\ Len(streams) < MaxStreams
  /\ \E matchId \in MatchIds :
       LET s == Len(streams) + 1
       IN /\ liveMatches' = ensureMatch(liveMatches, matchId)
          /\ streams' = Append(streams, NewStream(matchId))
          /\ listeners' = BusOn(listeners, matchId, s)
          /\ watchers' = [watchers EXCEPT ![matchId] = @ + 1]
  /\ UNCHANGED <<scenario, stats, gw, authService, metadata, emits>>

\* req.on("close") of a stream (http.ts:255-258)
StreamClose ==
  /\ \E s \in 1..Len(streams) :
       /\ streams[s].open
       /\ streams' = [streams EXCEPT ![s].open = FALSE, ![s].atClose = Len(streams[s].written)]
       /\ listeners' = BusOff(listeners, streams[s].matchId, s)
       /\ watchers' = [watchers EXCEPT ![streams[s].matchId] = @ - 1]
  /\ UNCHANGED <<scenario, stats, gw, authService, metadata, liveMatches, emits>>

\* tickMatches, run by setInterval (http.ts:277-294)
TickMatches ==
  /\ emits < MaxEmits
  /\ emits' = emits + 1
  /\ streams' = Emit(streams, listeners, liveMatches)
  /\ UNCHANGED <<scenario, stats, gw, authService, metadata, liveMatches, listeners, watchers>>

NextLive == StreamOpen \/ StreamClose \/ TickMatches
SpecLive == Init /\ [][NextLive]_vars

NextMetadata ==
  \/ \E m \in MetaReqs : CachePost(m)
  \/ \E m \in MetaReqs : CacheFetched(m)
SpecMetadata == Init /\ [][NextMetadata]_vars

\* the same service with an upstream whose answer may change from one
\* attempt to the next, on feeds of at most one match (one league, two teams)
RetryLists == {gl \in GameLists : Len(gl) <= 1 /\ \A i \in 1..Len(gl) : gl[i].match_id = 1}
InitRetry ==
  /\ InitCommon /\ slots = {"r1"} /\ transient = TRUE /\ feeds = RetryLists
  /\ faults = TRUE /\ renames = FALSE
SpecRetry == InitRetry /\ [][Next]_vars

\* two handler invocations at a time, for a feed whose match references one
\* league and one team; the upstream answers every call
RaceLists == {gl \in GameLists : Len(gl) = 1 /\ gl[1].match_id = 3}
InitRace ==
  /\ InitCommon /\ slots = Reqs /\ transient = FALSE /\ feeds = RaceLists
  /\ faults = FALSE /\ renames = TRUE
SpecRace == InitRace /\ [][Next]_vars

\* ================================================================ claims
\* the match list the live feed returned to request r
FeedReturned(r) == req[r].feed.state = "returned"
Input(r) == IF req[r].feed.res.body.has THEN req[r].feed.res.body.items ELSE <<>>
\* hydration (hydrateLeagues, hydrateTeams) was entered
Hydrating(r) == req[r].lg.state # "none"
Answered200(r) == req[r].resp.status = 200
Items(r) == req[r].resp.items
\* age of a cache entry at the time hydration of r started
AgeAtStart(r, cache, id) == req[r].now0 - cache[id].lastUpdated
WasFresh(r, cache, id) == id \in DOMAIN cache /\ AgeAtStart(r, cache, id) < 5 * 60 * 1000
Range(f) == {f[i] : i \in DOMAIN f}

\* C1: the hydrated list has the length and the order of the feed's list:
\* item i is built from input match i.
C1_SameLengthSameOrder ==
  \A r \in Reqs :
    Answered200(r) /\ FeedReturned(r) =>
      /\ Len(Items(r)) = Len(Input(r))
      /\ req[r].resp.count = Len(Input(r))
      /\ \A i \in 1..Len(Input(r)) :
           /\ Items(r)[i].matchId = Input(r)[i].match_id
           /\ Items(r)[i].league = Input(r)[i].league_id
           /\ Items(r)[i].radiant.id = Input(r)[i].radiant_team_id
           /\ Items(r)[i].dire.id = Input(r)[i].dire_team_id

C1_Witness ==
  \E r \in Reqs :
    /\ Answered200(r) /\ FeedReturned(r)
    /\ Len(Items(r)) = 2
    /\ Items(r)[1].matchId = 2 /\ Items(r)[2].matchId = 1

\* C2 (as claimed): once hydration is entered the endpoint answers 200,
\* whatever the league-catalog call and the team lookups do.
C2_HydrationNeverFails ==
  \A r \in Reqs : Hydrating(r) /\ req[r].resp.status # 0 => Answered200(r)

CatalogReturned(r) ==
  IF req[r].lg.call.state = "returned" /\ req[r].lg.call.res.body.has
  THEN req[r].lg.call.res.body.items ELSE <<>>
InCatalog(r, id) == \E k \in 1..Len(CatalogReturned(r)) : CatalogReturned(r)[k].leagueid = id

FetchedName(id) == IF id = 200 THEN <<"team name", 200>> ELSE <<"Team", id>>
\* the names shown for the sides of the output of r that play as team id
ShownNames(r, id) ==
  {Items(r)[i].radiant.name : i \in {j \in 1..Len(Items(r)) : Items(r)[j].radiant.id = id}}
  \cup {Items(r)[i].dire.name : i \in {j \in 1..Len(Items(r)) : Items(r)[j].dire.id = id}}
RawNames(r, id) ==
  {Input(r)[i].radiant_name : i \in {j \in 1..Len(Input(r)) : Input(r)[j].radiant_team_id = id}}
  \cup {Input(r)[i].dire_name : i \in {j \in 1..Len(Input(r)) : Input(r)[j].dire_team_id = id}}

\* C4: a failed team lookup does not stop the others: once hydrateTeams has
\* returned, every missing team ID was looked up, also after a failure; and
\* when the lookup of team A failed and the lookup of team B returned an
\* entry, B is in the map and in teamCache under its fetched name, A is not
\* in the map, and the output shows B's fetched name and A's raw name.
C4_TeamFailureDoesNotCascade ==
  \A r \in Reqs :
    /\ req[r].tm.state = "resolved" /\ req[r].tm.failed # {} =>
         /\ Range(req[r].tm.missing) = Range(req[r].tm.fetches)
         /\ req[r].lg.state = "resolved" => Answered200(r)
    /\ \A a \in req[r].tm.failed, b \in req[r].tm.found :
         /\ a \notin DOMAIN req[r].tm.map
         /\ b \in DOMAIN req[r].tm.map
         /\ req[r].tm.map[b].name = FetchedName(b)
         /\ b \in DOMAIN teamCache /\ teamCache[b].name = FetchedName(b)
         /\ Answered200(r) =>
              /\ ShownNames(r, b) = {FetchedName(b)}
              /\ ShownNames(r, a) = RawNames(r, a)

C4_Witness ==
  \E r \in Reqs :
    /\ Answered200(r)
    /\ req[r].tm.missing = <<200, 300>>
    /\ req[r].tm.failed = {200} /\ req[r].tm.found = {300}
    /\ ShownNames(r, 300) = {<<"Team", 300>>}

\* the league IDs the input of r references
LeaguesReferenced(r) ==
  {Input(r)[i].league_id : i \in {j \in 1..Len(Input(r)) : IsFinite(Input(r)[j].league_id)}}
\* the team IDs the input of r references (0 is "no team")
TeamsReferenced(r) ==
  {id \in {Input(r)[i].radiant_team_id : i \in 1..Len(Input(r))}
         \cup {Input(r)[i].dire_team_id : i \in 1..Len(Input(r))} :
     IsFinite(id) /\ id # 0}

\* C5: a hydrate call whose referenced league IDs are all in leagueCache with
\* age < 5 minutes makes no league-catalog call and takes every league name
\* from the cache.
C5_FreshLeaguesNoCatalogCall ==
  \A r \in Reqs :
    (Hydrating(r) /\ \A id \in LeaguesReferenced(r) : WasFresh(r, req[r].leagueCache0, id)) =>
      /\ req[r].lg.call.calls = 0
      /\ req[r].lg.state = "resolved"
      /\ Answered200(r) =>
           \A i \in 1..Len(Items(r)) :
             IsFinite(Items(r)[i].league) =>
               Items(r)[i].leagueName = req[r].leagueCache0[Items(r)[i].league].name

C5_Witness ==
  \E r \in Reqs :
    /\ Answered200(r) /\ Hydrating(r)
    /\ LeaguesReferenced(r) = {100, 101}
    /\ \A id \in LeaguesReferenced(r) :
         /\ WasFresh(r, req[r].leagueCache0, id)
         /\ AgeAtStart(r, req[r].leagueCache0, id) = 5 * 60 * 1000 - 1
    /\ req[r].lg.call.calls = 0

\* C6: a team ID that is in teamCache with age < 5 minutes when the call
\* starts is never looked up upstream in that call and is shown under its
\* cached name, whatever happens to the other team IDs; a team whose lookup
\* failed is shown under the raw name field of the match.
C6_FreshTeamsFromCache ==
  \A r \in Reqs :
    Hydrating(r) =>
      /\ \A id \in TeamsReferenced(r) :
           WasFresh(r, req[r].teamCache0, id) =>
             /\ id \notin Range(req[r].tm.fetches)
             /\ Answered200(r) => ShownNames(r, id) = {req[r].teamCache0[id].name}
      /\ \A id \in req[r].tm.failed :
           Answered200(r) => ShownNames(r, id) = RawNames(r, id)

C6_Witness ==
  \E r \in Reqs :
    /\ Answered200(r) /\ Hydrating(r)
    /\ TeamsReferenced(r) = {200, 300}
    /\ WasFresh(r, req[r].teamCache0, 200)
    /\ req[r].tm.failed = {300}
    /\ Range(req[r].tm.fetches) = {300}
    /\ ShownNames(r, 200) = {<<"team name", 200>>}
    /\ ShownNames(r, 300) \subseteq {<<"radiant_name", 2>>, <<"dire_name", 1>>}

\* the live feed answered 404 to the attempt that ended fetchWithRetry
Feed404(r) ==
  req[r].feed.state = "thrown" /\ req[r].feed.lastError = RequestFailed(404)

\* C7: when the live feed answers 404 the endpoint answers 200 with
\* {count: 0, items: []} and no league or team lookup is made.
C7_Feed404IsEmpty200 ==
  \A r \in Reqs :
    Feed404(r) =>
      /\ req[r].resp = Json200(<<>>)
      /\ req[r].lg.call.calls = 0
      /\ req[r].tm.fetches = <<>>
      /\ ~Hydrating(r)

C7_Witness ==
  \E r \in Reqs :
    Feed404(r) /\ req[r].feed.calls = 3 /\ Answered200(r) /\ req[r].resp.count = 0

\* C8 (as claimed): when the live feed answers a non-2xx status other than
\* 404 on every attempt, the endpoint answers 500 with an error envelope.
C8_FeedErrorIs500 ==
  \A r \in Reqs :
    ( /\ req[r].feed.state = "thrown"
      /\ req[r].feed.lastError.message = "Request failed"
      /\ req[r].feed.lastError.status # 404 ) =>
      /\ req[r].resp.status = 500
      /\ req[r].resp.error = "failed_to_fetch_live"

\* C9: when every attempt of the live-feed call fails, the function returns
\* an empty list and the endpoint answers 200 with count 0.
C9_FeedDownIsEmpty200 ==
  \A r \in Reqs :
    req[r].feed.state = "thrown" =>
      /\ req[r].resp.status = 200
      /\ req[r].resp.count = 0
      /\ req[r].resp.items = <<>>

C9_Witness ==
  \E r \in Reqs :
    /\ req[r].feed.state = "thrown" /\ req[r].feed.lastError = FetchFailed
    /\ req[r].feed.calls = 3
    /\ Answered200(r)

\* C10: the series label of every hydrated match is "Bo1" for code 0, "Bo3"
\* for 1, "Bo5" for 2 and "Live" for every other code and for a missing one.
C10_SeriesLabels ==
  \A r \in Reqs :
    Answered200(r) /\ FeedReturned(r) =>
      \A i \in 1..Len(Items(r)) :
        LET code == Input(r)[i].series_type
            label == Items(r)[i].seriesType
        IN /\ code = 0 => label = "Bo1"
           /\ code = 1 => label = "Bo3"
           /\ code = 2 => label = "Bo5"
           /\ code \notin {0, 1, 2} => label = "Live"
           /\ label \in {"Bo1", "Bo3", "Bo5", "Live"}

C10_Witness ==
  \E r \in Reqs :
    /\ Answered200(r) /\ FeedReturned(r)
    /\ Len(Items(r)) = 2
    /\ Input(r)[1].series_type = 1 /\ Items(r)[1].seriesType = "Bo3"
    /\ Input(r)[2].series_type = Missing /\ Items(r)[2].seriesType = "Live"

\* ------------------------------------------------- fetchWithRetry claims
\* the fetchWithRetry calls of request r that were entered
CallsOf(r) == {c \in {req[r].feed, req[r].lg.call, req[r].tm.call} : c.state # "none"}
\* a 2xx status; 0 stands for a fetch that threw
IsSuccess(status) == status \in 200..299
LastAnswer(c) == c.answers[Len(c.answers)]

\* C11: fetchWithRetry calls fetch until the first success or until
\* retries + 1 attempts were made: no attempt follows a success, the call
\* returns the successful response, it throws the error of the last attempt
\* exactly when all retries + 1 attempts failed, and while it is pending at
\* most retries attempts were made, so it ends within retries + 1 attempts.
C11_RetryUntilSuccessOrExhausted ==
  \A r \in Reqs : \A c \in CallsOf(r) :
    /\ c.calls = Len(c.answers)
    /\ c.calls <= c.retries + 1
    /\ \A k \in 1..(Len(c.answers) - 1) : ~IsSuccess(c.answers[k])
    /\ c.state = "returned" <=> (c.answers # <<>> /\ IsSuccess(LastAnswer(c)))
    /\ c.state = "returned" => c.res.status = LastAnswer(c)
    /\ c.state = "thrown" <=> (c.calls = c.retries + 1 /\ ~IsSuccess(LastAnswer(c)))
    /\ c.state = "thrown" =>
         c.lastError = (IF LastAnswer(c) = 0 THEN FetchFailed ELSE RequestFailed(LastAnswer(c)))
    /\ c.state = "pending" => c.calls <= c.retries

C11_Witness ==
  \E r \in Reqs :
    /\ req[r].feed.state = "returned" /\ req[r].feed.answers = <<0, 500, 200>>
    /\ req[r].lg.call.state = "thrown" /\ req[r].lg.call.answers = <<500, 0>>

\* C12: a non-2xx response is a failed attempt like a thrown fetch: it is
\* never the response returned, and it is followed by a wait and a retry
\* whenever a retry is left.
C12_NonOkIsFailure ==
  \A r \in Reqs : \A c \in CallsOf(r) :
    /\ c.state = "returned" => c.res.kind = "response" /\ c.res.status \in 200..299
    /\ \A k \in 1..Len(c.answers) :
         c.answers[k] \notin 200..299 =>
           /\ k < Len(c.answers) \/ c.state \in {"pending", "thrown"}
           /\ k <= c.retries => Len(c.waits) >= k
           /\ k = c.retries + 1 => c.state = "thrown"

C12_Witness ==
  \E r \in Reqs :
    /\ req[r].feed.answers = <<404, 500>> /\ req[r].feed.state = "pending"
    /\ Len(req[r].feed.waits) = 2

\* the attempts of c that failed and were followed by a wait
Waited(c) == IF c.state = "pending" THEN c.calls ELSE c.calls - 1

\* C13: after failed attempt k (k = 0, 1, ...) fetchWithRetry waits
\* backoffMs * 2^k, and it does not wait after the last allowed attempt;
\* with backoffMs = 300 and 2 retries the waits are 300 then 600.
C13_ExponentialBackoff ==
  \A r \in Reqs :
    /\ \A c \in CallsOf(r) :
         /\ Len(c.waits) = Waited(c)
         /\ Len(c.waits) <= c.retries
         /\ \A k \in 1..Len(c.waits) : c.waits[k] = c.backoffMs * 2^(k - 1)
    /\ req[r].feed.state = "thrown" => req[r].feed.waits = <<300, 600>>

C13_Witness ==
  \E r \in Reqs :
    /\ req[r].feed.state = "thrown" /\ req[r].feed.calls = 3
    /\ req[r].feed.waits = <<300, 600>>

\* ------------------------------------------------------- gateway claims
ProxiedRoutes == {"metadata", "live", "stats"}
\* the request carries a Bearer JWT that verifies against the secret
HasValidJwt(x) == x.header.scheme = "Bearer" /\ x.header.token.verifies
RoleList(x) == IF x.header.token.roles.has THEN x.header.token.roles.list ELSE <<>>

C15_AdminUsageNeedsAdmin ==
  gw.path = <<"admin", "usage">> =>
    /\ gw.target = "none"
    /\ gw.body = "metrics" <=> (HasValidJwt(gw) /\ \E i \in 1..Len(RoleList(gw)) : RoleList(gw)[i] = "admin")
    /\ gw.body = "metrics" => gw.status = 200
    /\ ~HasValidJwt(gw) => gw.status = 401
    /\ (HasValidJwt(gw) /\ gw.body # "metrics") => gw.status = 403

C15_Witness ==
  /\ gw.path = <<"admin", "usage">>
  /\ HasValidJwt(gw) /\ gw.header.token.roles = Roles(<<"user">>)
  /\ gw.status = 403 /\ gw.body = "forbidden"

\* ---------------------------------------------------------- auth claims
HasAdmin(roles) == \E i \in 1..Len(roles) : roles[i] = "admin"
Whitelisted(steamId) == \E i \in 1..Len(adminSteamIds) : adminSteamIds[i] = steamId

\* C16: over every login path a created profile and the JWT issued for it
\* carry the role "admin" if and only if the profile's steamId is on the
\* ADMIN_STEAM_IDS whitelist.
C16_AdminIffWhitelisted ==
  \A i \in 1..Len(profiles) :
    /\ HasAdmin(profiles[i].roles) <=> Whitelisted(profiles[i].steamId)
    /\ HasAdmin(tokens[i].roles) <=> Whitelisted(tokens[i].steamId)

\* ------------------------------------------------- malformed feed entries
\* the feed answered a parsable list that holds a null entry
HasNullEntry(r) ==
  /\ FeedReturned(r) /\ req[r].feed.res.body.parses
  /\ \E i \in 1..Len(Input(r)) : Input(r)[i].isNull
WellFormed(r) == SelectSeq(Input(r), LAMBDA g : ~g.isNull)

\* C17: a null entry of the feed's game_list is skipped instead of making
\* getFeaturedDotaGames throw: hydration goes on, and a 200 answer holds
\* the well-formed matches of the feed.
C17_MalformedEntrySkipped ==
  \A r \in slots :
    (req[r].pc = "done" /\ HasNullEntry(r)) =>
      /\ Hydrating(r)
      /\ Answered200(r) =>
           [i \in 1..Len(Items(r)) |-> Items(r)[i].matchId]
             = [i \in 1..Len(WellFormed(r)) |-> WellFormed(r)[i].match_id]

\* ---------------------------------------------------- display names
\* the side's team was resolved by the hydration of r: a fresh cache hit
\* when it started, or an entry fetched by it
TeamResolved(r, id) == WasFresh(r, req[r].teamCache0, id) \/ id \in req[r].tm.found
ResolvedName(r, id) ==
  IF WasFresh(r, req[r].teamCache0, id) THEN req[r].teamCache0[id].name ELSE FetchedName(id)
SideName(r, id, raw) == IF TeamResolved(r, id) THEN ResolvedName(r, id) ELSE raw

\* C18 as stated: the display name of a side is never undefined (a label is
\* synthesized when the team is unresolved and the match has no raw name).
C18_NameNeverUndefined ==
  \A r \in slots :
    Answered200(r) =>
      \A i \in 1..Len(Items(r)) :
        Items(r)[i].radiant.name # Undefined /\ Items(r)[i].dire.name # Undefined

\* C18 amended: the display name of a side is the name of the resolved team
\* entry if the side's team ID is resolved, else the raw upstream name of
\* the match, which is undefined when the match has none.
C18_NamePriority ==
  \A r \in slots :
    Answered200(r) /\ FeedReturned(r) =>
      \A i \in 1..Len(Items(r)) :
        /\ Items(r)[i].radiant.name
             = SideName(r, Input(r)[i].radiant_team_id, Input(r)[i].radiant_name)
        /\ Items(r)[i].dire.name
             = SideName(r, Input(r)[i].dire_team_id, Input(r)[i].dire_name)

C18_Witness ==
  \E r \in slots :
    /\ Answered200(r) /\ Len(Items(r)) = 2
    /\ Input(r)[1].match_id = 3 /\ Input(r)[2].match_id = 1
    /\ req[r].tm.found = {200} /\ req[r].tm.failed = {300}
    /\ Items(r)[1].radiant.name = <<"team name", 200>>
    /\ Items(r)[1].dire.name = Undefined
    /\ Items(r)[2].dire.name = <<"dire_name", 1>>

\* ------------------------------------------------------- hydrateLeagues
\* the requests the league catalog answered successfully for r
CatalogAnswers(r) ==
  {i \in 1..Len(req[r].lg.call.answers) : IsSuccess(req[r].lg.call.answers[i])}
LeagueRequested(r) == Range(req[r].lg.ids)
\* hydrateLeagues of r returns in this step with the catalog's answer
CatalogArrives(r) ==
  /\ req[r].lg.state = "pending"
  /\ req'[r].lg.state = "resolved"

\* C19: hydrateLeagues makes at most one league-catalog call (one
\* fetchWithRetry of one retry, answered at most once), and only when a
\* requested ID is absent from the cache or stale; in the step in which the
\* call succeeds every league of the catalog gets a cache entry with the
\* catalog's fields and the current time; and the returned map holds exactly
\* the requested IDs that were fresh in the cache or are in the catalog.
C19_OneCatalogCallRefreshesAll ==
  [][\A r \in slots :
       /\ req'[r].lg.call.calls <= LeagueRetries + 1
       /\ Cardinality(CatalogAnswers(r)') <= 1
       /\ req'[r].lg.call.calls > 0 =>
            \E id \in LeagueRequested(r)' : ~WasFresh(r, req[r].leagueCache0, id)'
       /\ CatalogArrives(r) =>
            \A k \in 1..Len(CatalogReturned(r)') :
              LET l == CatalogReturned(r)'[k]
              IN /\ l.leagueid \in DOMAIN leagueCache'
                 /\ leagueCache'[l.leagueid]
                      = [name |-> l.name, tier |-> l.tier, lastUpdated |-> clock]
       /\ req'[r].lg.state = "resolved" =>
            /\ DOMAIN req'[r].lg.map
                 = {id \in LeagueRequested(r)' :
                      WasFresh(r, req[r].leagueCache0, id)' \/ InCatalog(r, id)'}
            /\ \A id \in DOMAIN req'[r].lg.map :
                 req'[r].lg.map[id].name = <<"league name", id>>
    ]_vars

C19_Witness ==
  \E r \in slots :
    /\ req[r].lg.state = "resolved" /\ req[r].lg.call.state = "returned"
    /\ req[r].lg.ids = <<100>>
    /\ DOMAIN req[r].leagueCache0 = {100, 101}
    /\ ~WasFresh(r, req[r].leagueCache0, 100)
    /\ DOMAIN req[r].lg.map = {100}
    /\ leagueCache[101].lastUpdated > req[r].leagueCache0[101].lastUpdated
    /\ leagueCache[100].lastUpdated > req[r].leagueCache0[100].lastUpdated

\* --------------------------------------------------------- cache frames
\* the league catalog answered r in this step and holds league id
LeagueRefreshed(r, id) ==
  /\ CatalogArrives(r)
  /\ req'[r].lg.call.state = "returned" /\ IsSuccess(LastAnswer(req'[r].lg.call))
  /\ \E k \in 1..Len(CatalogReturned(r)') :
       LET l == CatalogReturned(r)'[k]
       IN /\ l.leagueid = id
          /\ leagueCache'[id] = [name |-> l.name, tier |-> l.tier, lastUpdated |-> clock]
\* the lookup of team id returned an entry to r in this step
TeamRefreshed(r, id) ==
  /\ req[r].tm.state = "pending"
  /\ id \in req'[r].tm.found /\ req[r].tm.missing[req[r].tm.cur] = id
  /\ req'[r].tm.fetches = Append(req[r].tm.fetches, id)
  /\ id \in DOMAIN req'[r].tm.map
  /\ teamCache'[id] = [name |-> req'[r].tm.map[id].name, logo |-> req'[r].tm.map[id].logo,
                        lastUpdated |-> clock]
\* a league-catalog call or a team lookup of r failed for good in this step
HydrationFailure(r) ==
  \/ req[r].lg.state = "pending" /\ req'[r].lg.state = "rejected"
  \/ req'[r].tm.failed # req[r].tm.failed

\* C20: a step changes leagueCache or teamCache only by writing whole
\* entries (all fields and lastUpdated = now) for a successful upstream
\* answer of that step: no key is ever removed, every other entry stays as
\* it was, and a step in which a league-catalog call or a team lookup fails
\* leaves both caches unchanged.
C20_CachesOnlyOverwrittenOnSuccess ==
  [][/\ DOMAIN leagueCache \subseteq DOMAIN leagueCache'
     /\ DOMAIN teamCache \subseteq DOMAIN teamCache'
     /\ \A id \in DOMAIN leagueCache' :
          \/ id \in DOMAIN leagueCache /\ leagueCache'[id] = leagueCache[id]
          \/ \E r \in slots : LeagueRefreshed(r, id)
     /\ \A id \in DOMAIN teamCache' :
          \/ id \in DOMAIN teamCache /\ teamCache'[id] = teamCache[id]
          \/ \E r \in slots : TeamRefreshed(r, id)
     /\ (\E r \in slots : HydrationFailure(r)) =>
          leagueCache' = leagueCache /\ teamCache' = teamCache
    ]_vars

C20_Witness ==
  \E r \in slots :
    /\ req[r].tm.state = "resolved"
    /\ req[r].tm.missing = <<300, 200>>
    /\ req[r].tm.failed = {300} /\ req[r].tm.found = {200}
    /\ DOMAIN req[r].teamCache0 = {200, 300}
    /\ teamCache[300] = req[r].teamCache0[300]
    /\ teamCache[200].lastUpdated > req[r].teamCache0[200].lastUpdated
    /\ teamCache[200].name = req[r].teamCache0[200].name

\* ------------------------------------------------------ retries per call
\* the number of fetch attempts r made for team id
TeamAttempts(r, id) ==
  Cardinality({i \in 1..Len(req[r].tm.fetches) : req[r].tm.fetches[i] = id})

\* C21 as stated: every upstream call of the hydrate path is made with 2
\* retries.
C21_TwoRetriesEverywhere ==
  \A r \in slots :
    \A c \in CallsOf(r) : c.retries = 2

\* C21 amended: the live feed is fetched with 2 retries (at most 3
\* attempts), the league catalog and each team lookup with 1 retry (at most
\* 2 attempts), and nothing else repeats a failed call: a hydrate call makes
\* at most 2 attempts per missing team ID and looks up no other ID.
C21_RetriesAsCalled ==
  \A r \in slots :
    /\ req[r].feed.state # "none" => req[r].feed.retries = 2 /\ req[r].feed.calls <= 3
    /\ req[r].lg.call.state # "none" =>
         req[r].lg.call.retries = 1 /\ req[r].lg.call.calls <= 2
    /\ req[r].tm.call.state # "none" => req[r].tm.call.retries = 1
    /\ \A i \in 1..Len(req[r].tm.fetches) :
         /\ TeamAttempts(r, req[r].tm.fetches[i]) <= 2
         /\ \E k \in 1..Len(req[r].tm.missing) : req[r].tm.missing[k] = req[r].tm.fetches[i]

C21_Witness ==
  \E r \in slots :
    /\ req[r].feed.state = "returned" /\ req[r].feed.calls = 3
    /\ req[r].lg.call.state = "thrown" /\ req[r].lg.call.calls = 2
    /\ req[r].tm.state = "resolved" /\ req[r].tm.failed = {200, 300}
    /\ req[r].tm.fetches = <<200, 200, 300, 300>>

\* ------------------------------------------------- team lookups in flight
\* the team IDs whose lookup r has issued: those answered at least once and
\* the one whose fetch is under way
TeamsIssued(r) ==
  Range(req[r].tm.fetches)
    \cup (IF req[r].tm.state = "pending" THEN {req[r].tm.missing[req[r].tm.cur]} ELSE {})

\* C22 as stated: when k team IDs are cold the k lookups are issued without
\* waiting for one another, so while hydrateTeams is pending all of them
\* have been issued.
C22_LookupsIssuedTogether ==
  \A r \in slots :
    req[r].tm.state = "pending" => TeamsIssued(r) = Range(req[r].tm.missing)

\* C22 amended: every missing team ID triggers its own upstream call, but
\* one after the other in the order of the IDs: while hydrateTeams is
\* pending only the lookups up to the current ID have been issued, all
\* earlier ones have been answered, and when it returns every missing ID
\* has been looked up.
C22_LookupsOneAtATime ==
  \A r \in slots :
    /\ req[r].tm.state = "pending" =>
         /\ req[r].tm.cur \in 1..Len(req[r].tm.missing)
         /\ TeamsIssued(r) = {req[r].tm.missing[j] : j \in 1..req[r].tm.cur}
         /\ \A j \in 1..(req[r].tm.cur - 1) : req[r].tm.missing[j] \in Range(req[r].tm.fetches)
         /\ req[r].tm.call.state = "pending"
    /\ req[r].tm.state = "resolved" => Range(req[r].tm.fetches) = Range(req[r].tm.missing)

C22_Witness ==
  \E r \in slots :
    /\ req[r].tm.state = "pending"
    /\ req[r].tm.missing = <<200, 300>>
    /\ req[r].tm.cur = 1 /\ req[r].tm.fetches = <<200>>
    /\ 300 \notin TeamsIssued(r)

\* ------------------------------------------------ concurrent hydrate calls
\* the lookup of team id answers r with an entry in this step
TeamArrives(r, id) ==
  /\ req[r].tm.state = "pending"
  /\ req[r].tm.missing[req[r].tm.cur] = id
  /\ id \notin req[r].tm.found /\ id \in req'[r].tm.found
\* the values the upstream can return for team id, as hydrateTeams keeps them
TeamValues(id) == {TeamValue(id, e) : e \in {TeamEntry(id), TeamEntryRenamed(id)}}
Complete(entry, id) ==
  \E v \in TeamValues(id) : entry.name = v.name /\ entry.logo = v.logo

\* C23: hydrate calls that run concurrently and miss the same ID each fetch
\* it, and the last write wins: every answer that arrives replaces the
\* cache entry by the complete value of that answer (whatever the entry
\* was, and leaving the other entries alone), the entries of teamCache and
\* leagueCache are at all times complete values of one upstream answer, and
\* the output of a call shows for a team it fetched the value of the answer
\* this call received.
C23_LastWriteWins ==
  [][\A r \in slots :
       /\ \A id \in {200, 300} :
            TeamArrives(r, id) =>
              /\ teamCache' = [k \in (DOMAIN teamCache) \cup {id} |->
                                 IF k = id
                                 THEN [name |-> req'[r].tm.map[id].name,
                                       logo |-> req'[r].tm.map[id].logo,
                                       lastUpdated |-> clock]
                                 ELSE teamCache[k]]
              /\ Complete(req'[r].tm.map[id], id)
       /\ CatalogArrives(r) =>
            \A k \in 1..Len(CatalogReturned(r)') :
              LET l == CatalogReturned(r)'[k]
              IN leagueCache'[l.leagueid]
                   = [name |-> l.name, tier |-> l.tier, lastUpdated |-> clock]
       /\ \A id \in DOMAIN teamCache' : Complete(teamCache'[id], id)
       /\ \A id \in DOMAIN leagueCache' :
            /\ leagueCache'[id].name = LeagueEntry(id).name
            /\ leagueCache'[id].tier = LeagueEntry(id).tier
       /\ Answered200(r)' =>
            \A id \in req'[r].tm.found : ShownNames(r, id)' = {req'[r].tm.map[id].name}
    ]_vars

C23_Witness ==
  /\ \A r \in Reqs :
       /\ Answered200(r)
       /\ req[r].teamCache0 = EmptyMap /\ req[r].leagueCache0 = EmptyMap
       /\ req[r].tm.state = "resolved" /\ req[r].tm.found = {200}
       /\ req[r].lg.call.state = "returned"
  /\ ShownNames("r1", 200) = {<<"team name", 200>>}
  /\ ShownNames("r2", 200) = {<<"new team name", 200>>}
  /\ teamCache[200].name = <<"team name", 200>>
  /\ teamCache[200].logo = <<"logo_url", 200>>

\* ------------------------------------------------------- distinct IDs
NoDuplicates(xs) == \A i, j \in 1..Len(xs) : xs[i] = xs[j] => i = j
\* the attempts for one ID follow one another: they belong to one call
OneCallPerId(xs) ==
  \A i, j \in 1..Len(xs) : (i < j /\ xs[i] = xs[j]) => \A k \in i..j : xs[k] = xs[i]

\* C24: getFeaturedDotaGames hands hydrateLeagues the distinct league IDs
\* and hydrateTeams the distinct team IDs (radiant and dire together) of all
\* matches, so a hydrate call makes at most one team-info call (one
\* fetchWithRetry, at most 2 attempts) per distinct missing team ID.
C24_DistinctIdsOneLookupEach ==
  \A r \in slots :
    Hydrating(r) =>
      /\ NoDuplicates(req[r].lg.ids) /\ Range(req[r].lg.ids) = LeaguesReferenced(r)
      /\ NoDuplicates(req[r].tm.ids) /\ Range(req[r].tm.ids) \ {0} = TeamsReferenced(r)
      /\ NoDuplicates(req[r].tm.missing)
      /\ Range(req[r].tm.missing) \subseteq TeamsReferenced(r)
      /\ OneCallPerId(req[r].tm.fetches)
      /\ \A id \in TeamsReferenced(r) : TeamAttempts(r, id) <= TeamRetries + 1

C24_Witness ==
  \E r \in slots :
    /\ Answered200(r) /\ Len(Input(r)) = 2
    /\ Input(r)[1].match_id = 1 /\ Input(r)[2].match_id = 2
    /\ req[r].tm.ids = <<200, 300>> /\ req[r].lg.ids = <<100>>
    /\ req[r].tm.fetches = <<200, 300, 300>>
    /\ req[r].tm.found = {200} /\ req[r].tm.failed = {300}

\* ----------------------------------------------------- stale entries
\* id was in the cache when the hydration of r started, with age >= 5 minutes
WasStale(r, cache, id) == id \in DOMAIN cache /\ AgeAtStart(r, cache, id) >= 5 * 60 * 1000

\* C25: an entry of age >= 5 minutes is never used: a stale team is in the
\* call's map only if this call fetched it, and when its lookup failed it
\* is shown under the raw name although its stale entry is still cached; a
\* stale league is in the call's map only from the catalog this call
\* fetched, and when the catalog call failed it is not in the map and no
\* match is output; every league name of an output comes from a fresh entry
\* or from the catalog fetched by the call.
C25_StaleEntriesNeverUsed ==
  \A r \in slots :
    Hydrating(r) =>
      /\ \A id \in TeamsReferenced(r) :
           WasStale(r, req[r].teamCache0, id) =>
             /\ id \in DOMAIN req[r].tm.map => id \in req[r].tm.found
             /\ id \in req[r].tm.failed =>
                  /\ id \notin DOMAIN req[r].tm.map
                  /\ id \in DOMAIN teamCache /\ teamCache[id] = req[r].teamCache0[id]
                  /\ Answered200(r) => ShownNames(r, id) = RawNames(r, id)
      /\ \A id \in LeaguesReferenced(r) :
           WasStale(r, req[r].leagueCache0, id) =>
             /\ id \in DOMAIN req[r].lg.map => InCatalog(r, id)
             /\ req[r].lg.state = "rejected" =>
                  /\ id \notin DOMAIN req[r].lg.map
                  /\ id \in DOMAIN leagueCache
                  /\ ~Answered200(r)
      /\ Answered200(r) =>
           \A i \in 1..Len(Items(r)) :
             Items(r)[i].leagueName # Undefined =>
               \/ WasFresh(r, req[r].leagueCache0, Items(r)[i].league)
               \/ InCatalog(r, Items(r)[i].league)

C25_Witness ==
  \E r \in slots :
    /\ Answered200(r)
    /\ WasStale(r, req[r].teamCache0, 200)
    /\ AgeAtStart(r, req[r].teamCache0, 200) = 5 * 60 * 1000
    /\ req[r].tm.failed = {200}
    /\ teamCache[200].name = <<"team name", 200>>
    /\ ShownNames(r, 200) = {<<"radiant_name", 3>>}

\* --------------------------------------- league failure and team lookups
\* the league-catalog call of r fails for good in this step
CatalogRejects(r) == req[r].lg.state = "pending" /\ req'[r].lg.state = "rejected"

\* C26: when the league-catalog call fails while team lookups are pending,
\* the handler answers 500 in that step and the team loop is left as it is;
\* the answer is not changed afterwards, a team entry that arrives after it
\* is still written to teamCache, and when the loop ends every missing team
\* ID has been looked up.
C26_TeamLookupsOutliveRejection ==
  [][\A r \in slots :
       /\ CatalogRejects(r) =>
            /\ req'[r].resp = Json500("failed_to_fetch_live")
            /\ req'[r].tm = req[r].tm
            /\ teamCache' = teamCache
       /\ (req[r].resp.status = 500 /\ req[r].tm.state = "pending") =>
            req'[r].resp = req[r].resp /\ req'[r].tm.state # "none"
       /\ \A id \in {200, 300} :
            (req[r].resp.status = 500 /\ TeamArrives(r, id)) =>
              /\ id \in DOMAIN teamCache'
              /\ teamCache'[id] = [name |-> req'[r].tm.map[id].name,
                                    logo |-> req'[r].tm.map[id].logo,
                                    lastUpdated |-> clock]
       /\ (req'[r].lg.state = "rejected" /\ req'[r].tm.state = "resolved") =>
            Range(req'[r].tm.fetches) = Range(req'[r].tm.missing)
    ]_vars

C26_Witness ==
  \E r \in slots :
    /\ req[r].lg.state = "rejected" /\ req[r].resp.status = 500
    /\ req[r].tm.state = "pending" /\ req[r].tm.missing = <<200, 300>>
    /\ req[r].tm.cur = 2 /\ req[r].tm.found = {200}
    /\ req[r].teamCache0 = EmptyMap
    /\ teamCache[200].lastUpdated > req[r].now0
    /\ req[r].lg.call.calls = 1

\* ---------------------------------------------------- no negative caching
\* hydrateLeagues of r has issued its catalog call
CatalogCalled(r) == req[r].lg.call.state # "none"
\* the lookup of team id was answered to r without an entry or not at all
NoEntryFor(r, id) == id \in Range(req[r].tm.fetches) /\ id \notin req[r].tm.found

\* C27: an ID the upstream has no entry for is not put in the cache (a
\* league absent from the fetched catalog, a team whose lookup returned no
\* entry), and a hydrate call issues the upstream call for every referenced
\* ID that is not in the cache when it starts, however recently the
\* previous call asked for it.
C27_NoNegativeCaching ==
  \A r \in slots :
    Hydrating(r) =>
      /\ \A id \in LeaguesReferenced(r) :
           /\ id \notin DOMAIN req[r].leagueCache0 => CatalogCalled(r)
           /\ (id \notin DOMAIN req[r].leagueCache0 /\ ~InCatalog(r, id)) =>
                id \notin DOMAIN leagueCache
      /\ \A id \in TeamsReferenced(r) :
           /\ id \notin DOMAIN req[r].teamCache0 => id \in Range(req[r].tm.missing)
           /\ (id \notin DOMAIN req[r].teamCache0 /\ NoEntryFor(r, id)) =>
                id \notin DOMAIN teamCache

C27_Witness ==
  \E r \in slots :
    /\ Answered200(r)
    /\ req[r].lg.ids = <<0, 100>>
    /\ WasFresh(r, req[r].leagueCache0, 100) /\ AgeAtStart(r, req[r].leagueCache0, 100) = 0
    /\ req[r].lg.call.state = "returned" /\ 0 \notin DOMAIN leagueCache
    /\ WasFresh(r, req[r].teamCache0, 200)
    /\ req[r].tm.missing = <<300>> /\ req[r].tm.fetches = <<300>>
    /\ req[r].tm.found = {} /\ req[r].tm.failed = {}
    /\ 300 \notin DOMAIN teamCache

\* ----------------------------------------------------------- empty feed
\* the feed answered 2xx with a body that parses and holds no match
FeedEmpty(r) == FeedReturned(r) /\ req[r].feed.res.body.parses /\ Input(r) = <<>>

\* C28: when the feed succeeds with an empty game_list, or with none, the
\* call makes no league-catalog call and no team lookup, leagueCache and
\* teamCache are as they were, and the endpoint answers 200 with count 0.
C28_EmptyFeedTouchesNothing ==
  \A r \in slots :
    FeedEmpty(r) =>
      /\ req[r].resp = Json200(<<>>) /\ req[r].resp.count = 0
      /\ req[r].lg.call = NoCall /\ req[r].lg.ids = <<>>
      /\ req[r].tm.call = NoCall /\ req[r].tm.fetches = <<>> /\ req[r].tm.missing = <<>>
      /\ leagueCache = req[r].leagueCache0
      /\ teamCache = req[r].teamCache0

C28_Witness ==
  \E r \in slots :
    /\ FeedEmpty(r) /\ ~req[r].feed.res.body.has
    /\ req[r].resp.status = 200 /\ req[r].resp.count = 0
    /\ DOMAIN leagueCache = {100, 101} /\ DOMAIN teamCache = {200, 300}

\* ------------------------------------------------------ metadata claims
\* C29: the games list never holds two entries with the same appId,
\* whatever the interleaving of the POST /games/cache requests; a request
\* answered cached: true returns an entry of the list.
C29_NoDuplicateAppIds ==
  /\ \A i, j \in 1..Len(metadataGames) :
       metadataGames[i].appId = metadataGames[j].appId => i = j
  /\ \A m \in MetaReqs :
       cacheReqs[m].resp.cached = "true" =>
         \E i \in 1..Len(metadataGames) : metadataGames[i] = cacheReqs[m].resp.item

\* ---------------------------------------------------------- live claims
OpenStreams(matchId) ==
  {s \in 1..Len(streams) : streams[s].open /\ streams[s].matchId = matchId}

\* C30: for every match the listeners of the bus are the handlers of the
\* open streams of that match, one each, and the watchers gauge is their
\* number, never negative; every stream starts with the init event, and
\* nothing is written to a stream after it was closed.
C30_ListenersAreOpenStreams ==
  /\ \A m \in MatchIds :
       /\ Range(listeners[m]) = OpenStreams(m)
       /\ Len(listeners[m]) = Cardinality(OpenStreams(m))
       /\ watchers[m] = Cardinality(OpenStreams(m))
       /\ watchers[m] >= 0
  /\ \A s \in 1..Len(streams) :
       /\ streams[s].written[1] = "init"
       /\ \A i \in 2..Len(streams[s].written) : streams[s].written[i] = "tick"
       /\ streams[s].matchId \in liveMatches
       /\ ~streams[s].open => Len(streams[s].written) = streams[s].atClose

C30_Witness ==
  /\ Len(streams) = 3
  /\ streams[1].matchId = "match-2" /\ streams[2].matchId = "match-2"
  /\ ~streams[1].open /\ streams[1].written = <<"init", "tick">>
  /\ streams[2].open /\ streams[2].written = <<"init", "tick", "tick">>
  /\ listeners["match-2"] = <<2>> /\ watchers["match-2"] = 1
  /\ emits = 2

====
